---- MODULE Spec2Model ----
(***************************************************************************)
(* Model of src/app/page.tsx: the chat page (Home), its response           *)
(* normalizer (parseAgentResponse) and its markup renderer                 *)
(* (MarkdownRenderer).                                                     *)
(*                                                                         *)
(* JavaScript values are tagged records (field t is the tag), JavaScript   *)
(* strings are TLA+ strings.  An operation that can raise returns the      *)
(* pseudo-value RaiseV instead of a value.                                 *)
(***************************************************************************)
EXTENDS Integers, Sequences, FiniteSets, TLC

VARIABLES messages, inputValue, isLoading, showSampleData, showNewChatConfirm,
          activeAgentId, idCounter, pending, lastCall,
          result, parsed, content, blocks, inline, node

vars == <<messages, inputValue, isLoading, showSampleData, showNewChatConfirm,
          activeAgentId, idCounter, pending, lastCall,
          result, parsed, content, blocks, inline, node>>

sessionVars == <<messages, inputValue, isLoading, showSampleData,
                 showNewChatConfirm, activeAgentId, idCounter, pending, lastCall>>

normVars == <<result, parsed>>

renderVars == <<content, blocks>>

inlineVars == <<inline, node>>

(***************************************************************************)
(* JavaScript values.                                                      *)
(***************************************************************************)
Undefined == [t |-> "undefined"]

Null == [t |-> "null"]

Bool(b) == [t |-> "boolean", b |-> b]

Num(n) == [t |-> "number", n |-> n]

Str(s) == [t |-> "string", s |-> s]

Arr(a) == [t |-> "array", a |-> a]

\* A plain object: o maps the names of its own properties to their values.
Obj(o) == [t |-> "object", o |-> o]

\* Objects that are not plain data:
\*   "thrower"          every property read and every coercion raises
\*   "cyclic"           an object that contains itself (JSON.stringify raises)
\*   "toJSONundefined"  an object whose toJSON method returns undefined
Exotic(x) == [t |-> "exotic", x |-> x]

EmptyObj == Obj([k \in {} |-> Null])

\* The elements of a sequence.
Range(q) == {q[i] : i \in 1..Len(q)}

\* The outcome of an operation that raised.
RaiseV == [t |-> "raise"]

IsRaise(v) == v.t = "raise"

\* typeof v
TypeOf(v) ==
  CASE v.t \in {"null", "array", "object", "exotic"} -> "object"
    [] OTHER -> v.t

\* Array.isArray(v)
IsArray(v) == v.t = "array"

\* v == null  (null or undefined)
IsNullish(v) == v.t \in {"null", "undefined"}

\* ToBoolean(v): the test of `if (v)` and of `v || w`
Truthy(v) ==
  CASE v.t \in {"undefined", "null"} -> FALSE
    [] v.t = "boolean" -> v.b
    [] v.t = "number" -> v.n # 0
    [] v.t = "string" -> v.s # ""
    [] OTHER -> TRUE

\* x?.k : a property read with optional chaining
Get(x, k) ==
  CASE x.t = "object" -> IF k \in DOMAIN x.o THEN x.o[k] ELSE Undefined
    [] x.t = "exotic" /\ x.x = "thrower" -> RaiseV
    [] OTHER -> Undefined

\* x?.k1?.k2
Get2(x, k1, k2) ==
  LET d == Get(x, k1) IN IF IsRaise(d) THEN RaiseV ELSE Get(d, k2)

RECURSIVE JoinElems(_, _)
RECURSIVE ToStringJS(_)
\* Array.prototype.join(",") from element i on: null and undefined give "".
JoinElems(a, i) ==
  IF i > Len(a) THEN Str("")
  ELSE LET e == IF IsNullish(a[i]) THEN Str("") ELSE ToStringJS(a[i])
           r == JoinElems(a, i + 1)
       IN IF IsRaise(e) \/ IsRaise(r) THEN RaiseV
          ELSE Str(e.s \o (IF i < Len(a) THEN "," ELSE "") \o r.s)

\* String(v)
ToStringJS(v) ==
  CASE v.t = "undefined" -> Str("undefined")
    [] v.t = "null" -> Str("null")
    [] v.t = "boolean" -> Str(IF v.b THEN "true" ELSE "false")
    [] v.t = "number" -> Str(ToString(v.n))
    [] v.t = "string" -> v
    [] v.t = "array" -> JoinElems(v.a, 1)
    [] v.t = "object" -> Str("[object Object]")
    [] v.t = "exotic" -> IF v.x = "thrower" THEN RaiseV ELSE Str("[object Object]")

\* The order in which an object's properties are serialized.  (A JavaScript
\* object keeps insertion order; the model fixes one order for all objects.)
PropertyOrder ==
  <<"data", "response", "follow_up_suggestions", "summary", "text", "message", "answer">>

\* JSON's QuoteJSONString, for strings without characters that need escaping.
Quote(s) == "\"" \o s \o "\""

RECURSIVE Ser(_, _, _)
RECURSIVE SerElems(_, _, _, _)
RECURSIVE SerProps(_, _, _, _, _)
\* SerializeJSONArray's elements from i on, each on its own line when gap # "".
\* An element that serializes to undefined is written as null.
SerElems(a, i, gap, ind) ==
  IF i > Len(a) THEN Str("")
  ELSE LET e == Ser(a[i], gap, ind)
           r == SerElems(a, i + 1, gap, ind)
           sep == IF i = 1 THEN "" ELSE IF gap = "" THEN "," ELSE ",\n" \o ind
       IN IF IsRaise(e) \/ IsRaise(r) THEN RaiseV
          ELSE Str(sep \o (IF e.t = "undefined" THEN "null" ELSE e.s) \o r.s)

\* SerializeJSONObject's members for the properties PropertyOrder[i..]; first
\* tells whether no member was written yet.  A property whose value serializes
\* to undefined is left out.
SerProps(o, i, first, gap, ind) ==
  IF i > Len(PropertyOrder) THEN Str("")
  ELSE LET k == PropertyOrder[i] IN
       IF k \notin DOMAIN o THEN SerProps(o, i + 1, first, gap, ind)
       ELSE LET e == Ser(o[k], gap, ind) IN
            IF IsRaise(e) THEN RaiseV
            ELSE IF e.t = "undefined" THEN SerProps(o, i + 1, first, gap, ind)
            ELSE LET r == SerProps(o, i + 1, FALSE, gap, ind)
                     sep == IF first THEN "" ELSE IF gap = "" THEN "," ELSE ",\n" \o ind
                     colon == IF gap = "" THEN ":" ELSE ": "
                 IN IF IsRaise(r) THEN RaiseV
                    ELSE Str(sep \o Quote(k) \o colon \o e.s \o r.s)

\* SerializeJSONProperty: the text of v (a Str), undefined, or a raise.  ind is
\* the indentation of v's members, gap the unit of indentation ("" = compact).
Ser(v, gap, ind) ==
  CASE v.t = "undefined" -> Undefined
    [] v.t = "null" -> Str("null")
    [] v.t = "boolean" -> Str(IF v.b THEN "true" ELSE "false")
    [] v.t = "number" -> Str(ToString(v.n))
    [] v.t = "string" -> Str(Quote(v.s))
    [] v.t = "array" ->
         IF v.a = <<>> THEN Str("[]")
         ELSE LET m == SerElems(v.a, 1, gap, ind \o gap) IN
              IF IsRaise(m) THEN RaiseV
              ELSE IF gap = "" THEN Str("[" \o m.s \o "]")
              ELSE Str("[\n" \o ind \o gap \o m.s \o "\n" \o ind \o "]")
    [] v.t = "object" ->
         LET m == SerProps(v.o, 1, TRUE, gap, ind \o gap) IN
         IF IsRaise(m) THEN RaiseV
         ELSE IF m.s = "" THEN Str("{}")
         ELSE IF gap = "" THEN Str("{" \o m.s \o "}")
         ELSE Str("{\n" \o ind \o gap \o m.s \o "\n" \o ind \o "}")
    [] v.t = "exotic" ->
         IF v.x = "toJSONundefined" THEN Undefined ELSE RaiseV

\* JSON.stringify(v, null, 2)
JSONstringifyIndented(v) == Ser(v, "  ", "")

\* JSON.stringify(v)
JSONstringifyCompact(v) == Ser(v, "", "")

(***************************************************************************)
(* Strings: the String.prototype methods the page uses.                    *)
(***************************************************************************)
\* The i-th character of s.
CharAt(s, i) == SubSeq(s, i, i)

\* s.slice(n): s without its first n characters.
Slice(s, n) == SubSeq(s, n + 1, Len(s))

\* s.startsWith(p)
StartsWith(s, p) == Len(s) >= Len(p) /\ SubSeq(s, 1, Len(p)) = p

\* The characters trim() strips and \s matches (white space and line
\* terminators), of those the model's strings hold.
WhiteSpace == {" ", "\t", "\n", "\r"}

RECURSIVE TrimStart(_)
TrimStart(s) ==
  IF s # "" /\ CharAt(s, 1) \in WhiteSpace THEN TrimStart(Slice(s, 1)) ELSE s

RECURSIVE TrimEnd(_)
TrimEnd(s) ==
  IF s # "" /\ CharAt(s, Len(s)) \in WhiteSpace
  THEN TrimEnd(SubSeq(s, 1, Len(s) - 1)) ELSE s

\* s.trim()
Trim(s) == TrimEnd(TrimStart(s))

(***************************************************************************)
(* Payloads: the values parseAgentResponse is applied to.                  *)
(***************************************************************************)
\* Most own properties a payload object of the model has.
MaxFields == 3

\* Most own properties of a payload object that arrives as JSON text.
MaxJsonFields == 2

\* Values of data.response.
NestedResponseValues ==
  {Null, Bool(FALSE), Num(0), Num(5), Str(""), Str("X"), Arr(<<>>), EmptyObj}

\* Values of follow_up_suggestions: two sequences and a non-sequence.
SuggestionValues == {Arr(<<Str("s1"), Str("s2")>>), Arr(<<Num(1)>>), Str("s1")}

\* Values of the top-level response.
FlatResponseValues == {Null, Num(5), Str(""), Str("R"), Arr(<<>>)}

\* Values of summary, text, message and answer.
GenericValues == {Null, Bool(FALSE), Num(0), Num(5), Str(""), Str("G")}

\* o with property k set to v.
Put(o, k, v) == [x \in DOMAIN o \cup {k} |-> IF x = k THEN v ELSE o[x]]

NoProps == [k \in {} |-> Null]

\* The objects under data: any of response and follow_up_suggestions.
DataObjects ==
  LET R == {NoProps} \cup {Put(NoProps, "response", v) :
                             v \in NestedResponseValues \cup {Exotic("thrower")}}
  IN {Obj(o) : o \in R}
       \cup {Obj(Put(o, "follow_up_suggestions", v)) : o \in R, v \in SuggestionValues}

FieldValues(k) ==
  CASE k = "data" -> DataObjects \cup {Null, Str("X"), Exotic("thrower")}
    [] k = "response" -> FlatResponseValues
    [] k = "follow_up_suggestions" -> SuggestionValues
    [] OTHER -> GenericValues

RECURSIVE PropMaps(_, _)
\* The property maps over PropertyOrder[i..] with at most n properties.
PropMaps(i, n) ==
  IF i > Len(PropertyOrder) \/ n = 0 THEN {NoProps}
  ELSE PropMaps(i + 1, n)
         \cup {Put(o, PropertyOrder[i], v) :
                 o \in PropMaps(i + 1, n - 1), v \in FieldValues(PropertyOrder[i])}

RECURSIVE IsJson(_)
\* v is JSON data: what JSON.parse can return.
IsJson(v) ==
  CASE v.t \in {"undefined", "exotic"} -> FALSE
    [] v.t = "array" -> \A i \in 1..Len(v.a) : IsJson(v.a[i])
    [] v.t = "object" -> \A k \in DOMAIN v.o : IsJson(v.o[k])
    [] OTHER -> TRUE

ObjectPayloads == {Obj(o) : o \in PropMaps(1, MaxFields)}

\* The JSON values whose compact texts are string payloads of the model.
JsonValues ==
  {v \in {Obj(o) : o \in PropMaps(1, MaxJsonFields)} : IsJson(v)}
    \cup {Null, Bool(TRUE), Num(5), Str("X"), Arr(<<>>), Arr(<<Num(1), Num(5)>>)}

\* String payloads that are not JSON texts.
PlainTexts == {"", "X", "plain text, not json", "{\"data\":", "{\"response\":\"R\"}}"}

StringPayloads ==
  {JSONstringifyCompact(v) : v \in JsonValues} \cup {Str(s) : s \in PlainTexts}

OtherPayloads ==
  {Undefined, Null, Bool(FALSE), Bool(TRUE), Num(0), Num(5),
   Arr(<<>>), Arr(<<Num(1), Num(5)>>), Arr(<<Str("X"), Null>>),
   Exotic("thrower"), Exotic("cyclic"), Exotic("toJSONundefined"),
   Obj([summary |-> Exotic("thrower")]), Obj([data |-> Exotic("cyclic")]),
   Obj([answer |-> Exotic("toJSONundefined")])}

Payloads == ObjectPayloads \cup StringPayloads \cup OtherPayloads

(***************************************************************************)
(* JSON.parse, by recursive descent over the text.  The grammar is JSON's  *)
(* without escapes in strings and with unsigned integers as the only       *)
(* numbers.  A parse is [ok, v, i]: whether it succeeded, the value, and   *)
(* the index after it.                                                     *)
(***************************************************************************)
Parsed(v, i) == [ok |-> TRUE, v |-> v, i |-> i]

NoParse == [ok |-> FALSE, v |-> Null, i |-> 0]

Digits == {"0", "1", "2", "3", "4", "5", "6", "7", "8", "9"}

DigitValue(c) ==
  CASE c = "0" -> 0 [] c = "1" -> 1 [] c = "2" -> 2 [] c = "3" -> 3 [] c = "4" -> 4
    [] c = "5" -> 5 [] c = "6" -> 6 [] c = "7" -> 7 [] c = "8" -> 8 [] c = "9" -> 9

RECURSIVE SkipWs(_, _)
\* The first index from i on that holds no JSON white space.
SkipWs(s, i) ==
  IF i <= Len(s) /\ CharAt(s, i) \in WhiteSpace THEN SkipWs(s, i + 1) ELSE i

RECURSIVE ClosingQuote(_, _)
\* The index of the quote that closes a string whose characters start at i;
\* 0 when there is none.
ClosingQuote(s, i) ==
  IF i > Len(s) \/ CharAt(s, i) \in {"\\", "\n", "\r", "\t"} THEN 0
  ELSE IF CharAt(s, i) = "\"" THEN i
  ELSE ClosingQuote(s, i + 1)

ParseString(s, i) ==
  IF i > Len(s) \/ CharAt(s, i) # "\"" THEN NoParse
  ELSE LET j == ClosingQuote(s, i + 1) IN
       IF j = 0 THEN NoParse ELSE Parsed(Str(SubSeq(s, i + 1, j - 1)), j + 1)

RECURSIVE ParseDigits(_, _, _)
\* The number whose digits so far have the value n, continued from i.
ParseDigits(s, i, n) ==
  IF i <= Len(s) /\ CharAt(s, i) \in Digits
  THEN ParseDigits(s, i + 1, 10 * n + DigitValue(CharAt(s, i)))
  ELSE Parsed(Num(n), i)

ParseNumber(s, i) ==
  IF CharAt(s, i) = "0" THEN Parsed(Num(0), i + 1)
  ELSE ParseDigits(s, i, 0)

RECURSIVE ParseValue(_, _)
RECURSIVE ParseElements(_, _, _)
RECURSIVE ParseMembers(_, _, _)
\* The elements of an array after "[" or ",", added to the elements a.
ParseElements(s, i, a) ==
  LET e == ParseValue(s, SkipWs(s, i)) IN
  IF ~e.ok THEN NoParse
  ELSE LET j == SkipWs(s, e.i) IN
       IF j > Len(s) THEN NoParse
       ELSE IF CharAt(s, j) = "," THEN ParseElements(s, j + 1, Append(a, e.v))
       ELSE IF CharAt(s, j) = "]" THEN Parsed(Arr(Append(a, e.v)), j + 1)
       ELSE NoParse

\* The members of an object after "{" or ",", added to the properties o.
ParseMembers(s, i, o) ==
  LET k == ParseString(s, SkipWs(s, i)) IN
  IF ~k.ok THEN NoParse
  ELSE LET c == SkipWs(s, k.i) IN
       IF c > Len(s) \/ CharAt(s, c) # ":" THEN NoParse
       ELSE LET e == ParseValue(s, SkipWs(s, c + 1)) IN
            IF ~e.ok THEN NoParse
            ELSE LET j == SkipWs(s, e.i) IN
                 IF j > Len(s) THEN NoParse
                 ELSE IF CharAt(s, j) = ","
                 THEN ParseMembers(s, j + 1, Put(o, k.v.s, e.v))
                 ELSE IF CharAt(s, j) = "}"
                 THEN Parsed(Obj(Put(o, k.v.s, e.v)), j + 1)
                 ELSE NoParse

\* The JSON value that starts at i.
ParseValue(s, i) ==
  IF i > Len(s) THEN NoParse
  ELSE LET c == CharAt(s, i) IN
       IF c = "{"
       THEN LET j == SkipWs(s, i + 1) IN
            IF j <= Len(s) /\ CharAt(s, j) = "}" THEN Parsed(EmptyObj, j + 1)
            ELSE ParseMembers(s, i + 1, NoProps)
       ELSE IF c = "["
       THEN LET j == SkipWs(s, i + 1) IN
            IF j <= Len(s) /\ CharAt(s, j) = "]" THEN Parsed(Arr(<<>>), j + 1)
            ELSE ParseElements(s, i + 1, <<>>)
       ELSE IF c = "\"" THEN ParseString(s, i)
       ELSE IF c \in Digits THEN ParseNumber(s, i)
       ELSE IF StartsWith(Slice(s, i - 1), "true") THEN Parsed(Bool(TRUE), i + 4)
       ELSE IF StartsWith(Slice(s, i - 1), "false") THEN Parsed(Bool(FALSE), i + 5)
       ELSE IF StartsWith(Slice(s, i - 1), "null") THEN Parsed(Null, i + 4)
       ELSE NoParse

\* JSON.parse(s): the value s is the text of, or a raise (SyntaxError).
JSONparse(s) ==
  LET r == ParseValue(s, SkipWs(s, 1)) IN
  IF r.ok /\ SkipWs(s, r.i) > Len(s) THEN r.v ELSE RaiseV

(***************************************************************************)
(* parseAgentResponse (lines 101-160).  A part of the try block ends in one *)
(* of three ways: it returns {text, suggestions}, it raises, or control     *)
(* goes on to the next statement.                                           *)
(***************************************************************************)
Return(text, suggestions) ==
  [kind |-> "return", text |-> text, suggestions |-> suggestions]

Throw == [kind |-> "throw", text |-> Str(""), suggestions |-> <<>>]

GoOn == [kind |-> "next", text |-> Str(""), suggestions |-> <<>>]

\* The text made of a coercion or serialization c, which may have raised.
TextOf(c) == IF IsRaise(c) THEN Throw ELSE Return(c, <<>>)

\* The nested shape taken for any data.response that is not null or undefined.
NestedShapeNonNull(v) ==
  LET r == Get2(v, "data", "response") IN
  IF IsRaise(r) THEN Throw
  ELSE IF IsNullish(r) THEN GoOn
  ELSE LET text == ToStringJS(r)
           f == Get2(v, "data", "follow_up_suggestions")
       IN IF IsRaise(text) \/ IsRaise(f) THEN Throw
          ELSE Return(text, IF IsArray(f) THEN f.a ELSE <<>>)

\* Lines 107-113 (on result) and 128-134 (on parsed): data.response is truthy.
NestedShape(v) ==
  LET r == Get2(v, "data", "response") IN
  IF IsRaise(r) THEN Throw
  ELSE IF ~Truthy(r) THEN GoOn
  ELSE LET text == ToStringJS(r)
           f == Get2(v, "data", "follow_up_suggestions")
       IN IF IsRaise(text) \/ IsRaise(f) THEN Throw
          ELSE Return(text, IF IsArray(f) THEN f.a ELSE <<>>)

\* Lines 116-122: response is truthy and a string.
FlatShape(v) ==
  LET r == Get(v, "response") IN
  IF IsRaise(r) THEN Throw
  ELSE IF ~(Truthy(r) /\ TypeOf(r) = "string") THEN GoOn
  ELSE LET f == Get(v, "follow_up_suggestions")
       IN IF IsRaise(f) THEN Throw
          ELSE Return(r, IF IsArray(f) THEN f.a ELSE <<>>)

\* The parsed value's response taken only when it is a string, as line 116
\* takes the payload's.
ParsedResponseStringOnly(v) ==
  LET r == Get(v, "response") IN
  IF IsRaise(r) THEN Throw
  ELSE IF ~(Truthy(r) /\ TypeOf(r) = "string") THEN GoOn
  ELSE Return(r, <<>>)

\* Lines 135-138: parsed.response is truthy; no suggestions are read.
ParsedResponse(v) ==
  LET r == Get(v, "response") IN
  IF IsRaise(r) THEN Throw
  ELSE IF ~Truthy(r) THEN GoOn
  ELSE TextOf(ToStringJS(r))

\* The outcome a, or b when control goes on after a.
OrNext(a, b) == IF a.kind # "next" THEN a ELSE b

\* Lines 139-142: whatever raises inside the inner try is caught, and the
\* payload itself is returned as the text.
InnerCatch(v, r) == IF r.kind = "throw" THEN Return(v, <<>>) ELSE r

\* Lines 127-142, p being what JSON.parse gave for the payload v.
InnerTry(v, p) ==
  IF IsRaise(p) THEN InnerCatch(v, Throw)
  ELSE InnerCatch(v, OrNext(NestedShape(p), ParsedResponse(p)))

\* Lines 125-143: a string payload.
StringPayload(v) ==
  IF TypeOf(v) # "string" THEN GoOn ELSE InnerTry(v, JSONparse(v.s))

\* Line 151: the whole payload as text.
WholePayload(v) ==
  TextOf(IF TypeOf(v) = "object" THEN JSONstringifyIndented(v) ELSE ToStringJS(v))

RECURSIVE GenericFieldsNonNull(_, _)
\* The generic fields taken when present and not null, instead of truthy.
GenericFieldsNonNull(v, i) ==
  LET fields == <<"summary", "text", "message", "answer">> IN
  IF i > Len(fields)
  THEN IF ~IsNullish(v) THEN WholePayload(v)
       ELSE Return(Str("No response received."), <<>>)
  ELSE LET g == Get(v, fields[i]) IN
       IF IsRaise(g) THEN Throw
       ELSE IF IsNullish(g) THEN GenericFieldsNonNull(v, i + 1)
       ELSE TextOf(ToStringJS(g))

RECURSIVE GenericFields(_, _)
\* Lines 146-154: the first truthy field of fields[i..], else the whole payload
\* when it is not null or undefined, else the placeholder.
GenericFields(v, i) ==
  LET fields == <<"summary", "text", "message", "answer">> IN
  IF i > Len(fields)
  THEN IF ~IsNullish(v) THEN WholePayload(v)
       ELSE Return(Str("No response received."), <<>>)
  ELSE LET g == Get(v, fields[i]) IN
       IF IsRaise(g) THEN Throw
       ELSE IF ~Truthy(g) THEN GenericFields(v, i + 1)
       ELSE TextOf(ToStringJS(g))

\* The strategies with the flat shape tried before the nested one.
TryBlockFlatFirst(v) ==
  OrNext(FlatShape(v),
    OrNext(NestedShape(v),
      OrNext(StringPayload(v), GenericFields(v, 1))))

\* The try block, lines 105-154: the strategies in the order of the code.
TryBlock(v) ==
  OrNext(NestedShape(v),
    OrNext(FlatShape(v),
      OrNext(StringPayload(v), GenericFields(v, 1))))

\* Lines 155-159: the outer catch turns a raise into the fixed text (suggestions
\* is then still the initial empty sequence), and the record is returned.
CatchAndReturn(r) ==
  IF r.kind = "throw"
  THEN [text |-> Str("Unable to parse response."), suggestions |-> <<>>]
  ELSE [text |-> r.text, suggestions |-> r.suggestions]

\* parseAgentResponse(result)
parseAgentResponse(v) == CatchAndReturn(TryBlock(v))

(***************************************************************************)
(* The page: Home (lines 313-637).                                         *)
(***************************************************************************)
\* Most turns (accepted submissions) of a session of the model.
MaxTurns == 2

\* Of a row of suggestion or starter buttons, the user clicks one of the first
\* MaxChoice.
MaxChoice == 1

Min(a, b) == IF a < b THEN a ELSE b

AGENT_ID == "698b28fbd6b1284eb616bf79"

\* getTimestamp() (lines 341-351), at a fixed time of day.
Timestamp == "2:30 PM"

\* What the user types into the textarea.
InputTexts == {"", " \n", " Hello "}

CONVERSATION_STARTERS ==
  <<"What can you help me with?", "Tell me an interesting fact",
    "Help me brainstorm ideas", "Explain a complex topic simply">>

\* A transcript entry (ChatMessage, lines 48-55).  An absent followUpSuggestions
\* is Undefined; an absent isError is FALSE.
ChatMessage(id, role, text, suggestions, isError) ==
  [id |-> id, role |-> role, content |-> text, timestamp |-> Timestamp,
   followUpSuggestions |-> suggestions, isError |-> isError]

\* SAMPLE_MESSAGES (lines 57-92); the long contents are cut short.
SAMPLE_MESSAGES ==
  <<[id |-> "sample-1", role |-> "user", timestamp |-> "2:30 PM",
     content |-> "Hello! Can you tell me what you can help me with?",
     followUpSuggestions |-> Undefined, isError |-> FALSE],
    [id |-> "sample-2", role |-> "assistant", timestamp |-> "2:30 PM",
     content |-> "Hello! I can help you with a wide range of queries",
     followUpSuggestions |->
       Arr(<<Str("What would you like help with today?"),
             Str("Are you looking for information on a specific topic?"),
             Str("Can I assist you with planning or recommendations?")>>),
     isError |-> FALSE],
    [id |-> "sample-3", role |-> "user", timestamp |-> "2:31 PM",
     content |-> "Can you help me plan a weekend trip to the mountains?",
     followUpSuggestions |-> Undefined, isError |-> FALSE],
    [id |-> "sample-4", role |-> "assistant", timestamp |-> "2:32 PM",
     content |-> "Absolutely! I'd love to help you plan a mountain getaway.",
     followUpSuggestions |->
       Arr(<<Str("Tell me more about hiking trails"),
             Str("What should I pack for cold weather?"),
             Str("Suggest some mountain destinations near me")>>),
     isError |-> FALSE]>>

\* Line 326.
displayMessages ==
  IF showSampleData /\ Len(messages) = 0 THEN SAMPLE_MESSAGES ELSE messages

\* What callAIAgent settles with: a result {success, response: {result,
\* message}, error} or a rejection.
AgentResult(kind, success, payload, error, message) ==
  [kind |-> kind, success |-> success, payload |-> payload,
   error |-> error, message |-> message]

NoResult == AgentResult("none", FALSE, Undefined, Undefined, Undefined)

Rejection == AgentResult("reject", FALSE, Undefined, Undefined, Undefined)

HiThere == Obj([data |-> Obj([response |-> Str("Hi there!")])])

\* The payloads of the successful calls of a session.
SessionPayloads ==
  {HiThere,
   Obj([response |-> Str("Sure."), follow_up_suggestions |-> Arr(<<Str(" More ")>>)]),
   Str("")}

Resolutions ==
  {AgentResult("resolve", TRUE, p, Undefined, Undefined) : p \in SessionPayloads}
    \cup {AgentResult("resolve", FALSE, Undefined, e, m) :
            e \in {Undefined, Str(""), Str("E")}, m \in {Undefined, Str("M")}}

\* The last call of sendMessage (op is the handler it came through), the last
\* call of confirmNewChat or the last settling of callAIAgent, whichever came
\* last: with the text handed to sendMessage and the result callAIAgent gave.
\* n alternates between 0 and 1, so that every such call changes lastCall.
Call(op, text, res) == [op |-> op, text |-> text, result |-> res, n |-> 1 - lastCall.n]

\* getNextId (lines 336-339): the id made from the counter's new value.
getNextId == "msg-" \o ToString(idCounter + 1)

\* `a || b` taken for b.
OrElseSecond(a, b) == b

\* `a || b` for a string b.
OrElse(a, b) == IF Truthy(a) THEN a.s ELSE b

\* The early return without its test of isLoading.
EarlyReturnBlankOnly(trimmed) == trimmed = ""

\* Line 356: the early return of sendMessage.
EarlyReturn(trimmed) == trimmed = "" \/ isLoading

\* sendMessage(text) up to its await (lines 353-377), called through the
\* handler op.
sendMessage(text, op) ==
  LET trimmed == Trim(text) IN
  /\ lastCall' = Call(op, text, NoResult)
  /\ IF EarlyReturn(trimmed)
     THEN UNCHANGED <<messages, inputValue, isLoading, activeAgentId, idCounter, pending>>
     ELSE /\ idCounter + 2 <= 2 * MaxTurns
          /\ idCounter' = idCounter + 1
          /\ messages' = Append(messages,
                           ChatMessage(getNextId, "user", trimmed, Undefined, FALSE))
          /\ inputValue' = ""
          /\ isLoading' = TRUE
          /\ activeAgentId' = AGENT_ID
          /\ pending' = Append(pending, [message |-> trimmed, agentId |-> AGENT_ID])
  /\ UNCHANGED <<showSampleData, showNewChatConfirm, result, parsed, content, blocks, inline, node>>

\* Lines 425-431; the textarea is disabled while loading (line 587).
handleTextareaChange ==
  /\ ~isLoading
  /\ \E v \in InputTexts : inputValue' = v
  /\ UNCHANGED <<messages, isLoading, showSampleData, showNewChatConfirm,
                 activeAgentId, idCounter, pending, lastCall,
                 result, parsed, content, blocks, inline, node>>

\* Lines 418-423, for Enter without Shift; the textarea is disabled while
\* loading (line 587).
handleKeyDown ==
  /\ ~isLoading
  /\ sendMessage(inputValue, "handleKeyDown")

\* The send button (lines 598-601), disabled for blank input and while loading.
SendButtonClick ==
  /\ ~(Trim(inputValue) = "" \/ isLoading)
  /\ sendMessage(inputValue, "SendButtonClick")

\* Lines 448-450, for a suggestion button of a displayed assistant entry
\* (lines 295-305).  A suggestion that is not a string makes text.trim() raise
\* at line 355, before anything is changed.
handleSuggestionClick ==
  \E i \in 1..Len(displayMessages) :
    LET m == displayMessages[i] IN
    /\ m.role # "user"
    /\ IsArray(m.followUpSuggestions)
    /\ \E j \in 1..Min(Len(m.followUpSuggestions.a), MaxChoice) :
         LET sug == m.followUpSuggestions.a[j] IN
         IF TypeOf(sug) = "string"
         THEN sendMessage(sug.s, "handleSuggestionClick")
         ELSE /\ lastCall' = Call("handleSuggestionClick", "", NoResult)
              /\ UNCHANGED <<messages, inputValue, isLoading, showSampleData,
                             showNewChatConfirm, activeAgentId, idCounter, pending,
                             result, parsed, content, blocks, inline, node>>

\* Lines 452-454; the starters are shown only for an empty display that is not
\* loading (line 528).
handleStarterClick ==
  /\ Len(displayMessages) = 0 /\ ~isLoading
  /\ \E i \in 1..Min(Len(CONVERSATION_STARTERS), MaxChoice) :
       sendMessage(CONVERSATION_STARTERS[i], "handleStarterClick")

\* Lines 383-389: the entry for what parseAgentResponse returned.
AssistantMessage(p) ==
  ChatMessage(getNextId, "assistant",
    OrElse(p.text, "I received your message but have no response to display."),
    Arr(p.suggestions), FALSE)

\* The entry the continuation of sendMessage appends for the result res
\* (lines 380-409).
ReplyMessage(res) ==
  IF res.kind = "reject"
  THEN ChatMessage(getNextId, "assistant",
         "A network error occurred. Please check your connection and try again.",
         Undefined, TRUE)
  ELSE IF res.success
  THEN AssistantMessage(parseAgentResponse(res.payload))
  ELSE ChatMessage(getNextId, "assistant",
         OrElse(res.error, OrElse(res.message, "Something went wrong. Please try again.")),
         Undefined, TRUE)

\* The continuation without its finally block: the loading flag stays set.
SettleNoFinally(i, res) ==
  /\ idCounter' = idCounter + 1
  /\ messages' = Append(messages, ReplyMessage(res))
  /\ pending' = SubSeq(pending, 1, i - 1) \o SubSeq(pending, i + 1, Len(pending))
  /\ lastCall' = Call("callAIAgent", pending[i].message, res)
  /\ UNCHANGED <<isLoading, activeAgentId, inputValue, showSampleData,
                 showNewChatConfirm, result, parsed, content, blocks, inline, node>>

\* sendMessage from its await on (lines 377-413), when the call pending[i]
\* settles with res: one entry is appended, then the finally block runs.
Settle(i, res) ==
  /\ idCounter' = idCounter + 1
  /\ messages' = Append(messages, ReplyMessage(res))
  /\ isLoading' = FALSE
  /\ activeAgentId' = "null"
  /\ pending' = SubSeq(pending, 1, i - 1) \o SubSeq(pending, i + 1, Len(pending))
  /\ lastCall' = Call("callAIAgent", pending[i].message, res)
  /\ UNCHANGED <<inputValue, showSampleData, showNewChatConfirm,
                 result, parsed, content, blocks, inline, node>>

\* callAIAgent returns a result.
AgentResolves == \E i \in 1..Len(pending) : \E res \in Resolutions : Settle(i, res)

\* callAIAgent throws.
AgentRejects == \E i \in 1..Len(pending) : Settle(i, Rejection)

\* Lines 433-437; the button is disabled for an empty transcript (line 502).
handleNewChat ==
  /\ Len(messages) # 0
  /\ showNewChatConfirm' = IF Len(messages) > 0 THEN TRUE ELSE showNewChatConfirm
  /\ UNCHANGED <<messages, inputValue, isLoading, showSampleData, activeAgentId,
                 idCounter, pending, lastCall, result, parsed, content, blocks, inline, node>>

\* The Cancel button of the confirmation bar (line 516).
CancelNewChat ==
  /\ showNewChatConfirm
  /\ showNewChatConfirm' = FALSE
  /\ UNCHANGED <<messages, inputValue, isLoading, showSampleData, activeAgentId,
                 idCounter, pending, lastCall, result, parsed, content, blocks, inline, node>>

\* A clear that removes only the last entry.
confirmNewChatDropLast ==
  /\ showNewChatConfirm
  /\ messages' = SubSeq(messages, 1, Len(messages) - 1)
  /\ showNewChatConfirm' = FALSE
  /\ inputValue' = ""
  /\ lastCall' = Call("confirmNewChat", "", NoResult)
  /\ UNCHANGED <<isLoading, showSampleData, activeAgentId, idCounter, pending,
                 result, parsed, content, blocks, inline, node>>

\* confirmNewChat starting the ids over.
confirmNewChatResetIds ==
  /\ showNewChatConfirm
  /\ messages' = <<>>
  /\ showNewChatConfirm' = FALSE
  /\ inputValue' = ""
  /\ idCounter' = 0
  /\ lastCall' = Call("confirmNewChat", "", NoResult)
  /\ UNCHANGED <<isLoading, showSampleData, activeAgentId, pending,
                 result, parsed, content, blocks, inline, node>>

\* Lines 439-446, from the Clear button of the confirmation bar (line 519).
confirmNewChat ==
  /\ showNewChatConfirm
  /\ messages' = <<>>
  /\ showNewChatConfirm' = FALSE
  /\ inputValue' = ""
  /\ lastCall' = Call("confirmNewChat", "", NoResult)
  /\ UNCHANGED <<isLoading, showSampleData, activeAgentId, idCounter, pending,
                 result, parsed, content, blocks, inline, node>>

\* The Sample Data switch (lines 489-493).
setShowSampleData ==
  /\ showSampleData' = ~showSampleData
  /\ UNCHANGED <<messages, inputValue, isLoading, showNewChatConfirm, activeAgentId,
                 idCounter, pending, lastCall, result, parsed, content, blocks, inline, node>>

\* The values of the variables a specification does not use.
NotParsed == [done |-> FALSE, text |-> Undefined, suggestions |-> <<>>]

NormIdle == result = Undefined /\ parsed = NotParsed

RenderIdle == content = "" /\ blocks = <<>>

\* renderInline has not returned.
NoNode == [done |-> FALSE, array |-> FALSE, parts |-> <<>>, text |-> ""]

InlineIdle == inline = "" /\ node = NoNode

\* The state after Home is constructed (lines 314-324).
SessionInit ==
  /\ messages = <<>>
  /\ inputValue = ""
  /\ isLoading = FALSE
  /\ showSampleData = FALSE
  /\ showNewChatConfirm = FALSE
  /\ activeAgentId = "null"
  /\ idCounter = 0
  /\ pending = <<>>
  /\ lastCall = [op |-> "mount", text |-> "", result |-> NoResult, n |-> 0]

Init == SessionInit /\ NormIdle /\ RenderIdle /\ InlineIdle

Next ==
  \/ handleTextareaChange
  \/ handleKeyDown
  \/ SendButtonClick
  \/ handleSuggestionClick
  \/ handleStarterClick
  \/ AgentResolves
  \/ AgentRejects
  \/ handleNewChat
  \/ CancelNewChat
  \/ confirmNewChat
  \/ setShowSampleData

Spec == Init /\ [][Next]_vars

(***************************************************************************)
(* parseAgentResponse on its own: one payload is drawn and normalized.     *)
(***************************************************************************)
NormInit ==
  /\ SessionInit /\ RenderIdle /\ InlineIdle
  /\ result \in Payloads
  /\ parsed = NotParsed

\* What parseAgentResponse returned.
Returned(p) == [done |-> TRUE, text |-> p.text, suggestions |-> p.suggestions]

Normalize ==
  /\ ~parsed.done
  /\ parsed' = Returned(parseAgentResponse(result))
  /\ UNCHANGED <<sessionVars, result, renderVars, inlineVars>>

NormSpec == NormInit /\ [][Normalize]_vars

(***************************************************************************)
(* MarkdownRenderer (lines 189-232).  A block is the element one line is   *)
(* rendered to: its kind, the digits shown before a numbered item, and the *)
(* text handed to renderInline.                                            *)
(***************************************************************************)
\* Most characters of a rendered content.
MaxLen == 6

Alphabet == {"#", "-", "*", "1", ".", " ", "\t", "\r", "\n", "a"}

RECURSIVE Concat(_)
\* The string of a sequence of characters.
Concat(q) == IF q = <<>> THEN "" ELSE Head(q) \o Concat(Tail(q))

\* The characters `.` of a regular expression does not match, of those the
\* model's strings hold.
LineTerminators == {"\n", "\r"}

RenderBlock(kind, index, text) == [kind |-> kind, index |-> index, text |-> text]

RECURSIVE split(_, _, _)
\* s.split('\n') (line 190): the lines of s from index i on, the current line
\* having started at index from.
split(s, from, i) ==
  IF i > Len(s) THEN <<SubSeq(s, from, Len(s))>>
  ELSE IF CharAt(s, i) = "\n"
  THEN <<SubSeq(s, from, i - 1)>> \o split(s, i + 1, i + 1)
  ELSE split(s, from, i + 1)

RECURSIVE DigitRun(_, _)
\* (\d+): how many digits s holds from index i on, before anything else.
DigitRun(s, i) ==
  IF i <= Len(s) /\ CharAt(s, i) \in Digits THEN 1 + DigitRun(s, i + 1) ELSE 0

RECURSIVE DotPlus(_, _)
\* (.+): how many characters s holds from index i on, before a line terminator.
DotPlus(s, i) ==
  IF i <= Len(s) /\ CharAt(s, i) \notin LineTerminators
  THEN 1 + DotPlus(s, i + 1) ELSE 0

NoMatch == [matched |-> FALSE, index |-> "", text |-> ""]

\* The match of the pattern with exactly a space after the period.
MatchSpaceOnly(t, d) ==
  IF /\ d >= 1
     /\ Len(t) >= d + 3
     /\ CharAt(t, d + 1) = "."
     /\ CharAt(t, d + 2) = " "
     /\ CharAt(t, d + 3) \notin LineTerminators
  THEN [matched |-> TRUE, index |-> SubSeq(t, 1, d),
        text |-> SubSeq(t, d + 3, d + 2 + DotPlus(t, d + 3))]
  ELSE NoMatch

\* /^(\d+)\.\s(.+)/ (line 218) on a string that starts with d digits and then
\* something else.
Match(t, d) ==
  IF /\ d >= 1
     /\ Len(t) >= d + 3
     /\ CharAt(t, d + 1) = "."
     /\ CharAt(t, d + 2) \in WhiteSpace
     /\ CharAt(t, d + 3) \notin LineTerminators
  THEN [matched |-> TRUE, index |-> SubSeq(t, 1, d),
        text |-> SubSeq(t, d + 3, d + 2 + DotPlus(t, d + 3))]
  ELSE NoMatch

\* trimmed.match(/^(\d+)\.\s(.+)/), line 218.
numMatch(trimmed) == Match(trimmed, DigitRun(trimmed, 1))

\* Lines 219-228: a numbered item when the pattern matched, else a paragraph.
NumberedOrParagraph(trimmed, m) ==
  IF m.matched THEN RenderBlock("numbered", m.index, m.text)
  ELSE RenderBlock("paragraph", "", trimmed)

\* Lines 197-228: the element of one line, from its trimmed text.
RenderLine(trimmed) ==
  IF trimmed = "" THEN RenderBlock("blank", "", "")
  ELSE IF StartsWith(trimmed, "### ") THEN RenderBlock("h3", "", Slice(trimmed, 4))
  ELSE IF StartsWith(trimmed, "## ") THEN RenderBlock("h2", "", Slice(trimmed, 3))
  ELSE IF StartsWith(trimmed, "# ") THEN RenderBlock("h1", "", Slice(trimmed, 2))
  ELSE IF StartsWith(trimmed, "- ") \/ StartsWith(trimmed, "* ")
  THEN RenderBlock("bullet", "", Slice(trimmed, 2))
  ELSE NumberedOrParagraph(trimmed, numMatch(trimmed))

\* lines.map(...), lines 194-229.
MapLines(lines) == [i \in 1..Len(lines) |-> RenderLine(Trim(lines[i]))]

MarkdownRenderer(c) == MapLines(split(c, 1, 1))

RenderInit ==
  /\ SessionInit /\ NormIdle /\ InlineIdle
  /\ \E n \in 0..MaxLen : \E q \in [1..n -> Alphabet] : content = Concat(q)
  /\ blocks = <<>>

Render ==
  /\ blocks = <<>>
  /\ blocks' = MarkdownRenderer(content)
  /\ UNCHANGED <<sessionVars, normVars, content, inlineVars>>

RenderSpec == RenderInit /\ [][Render]_vars

(***************************************************************************)
(* renderInline (lines 162-187).  A part is a string pushed as it is       *)
(* (kind "plain") or a strong or code element with its children.           *)
(***************************************************************************)
\* Most characters of a text renderInline is applied to, the example beside.
MaxInline == 8

\* The backquote character, taken out of a string in which it is followed by a
\* quote.
Backquote == SubSeq("`'", 1, 1)

InlineAlphabet == {"*", Backquote, "a", "\r"}

InlineExamples == {"**bold** and " \o Backquote \o "code" \o Backquote}

Part(kind, children) == [kind |-> kind, text |-> children]

\* p occurs in s at index i.
StartsAt(s, i, p) == i + Len(p) - 1 <= Len(s) /\ SubSeq(s, i, i + Len(p) - 1) = p

RECURSIVE Greedy(_, _, _, _, _)
\* (.+) before closer: the most characters from index i on, none a line
\* terminator, that closer follows; 0 when there are none.  n - 1 characters
\* are taken already, and best is the most found so far.
Greedy(s, i, n, closer, best) ==
  IF i + n - 1 > Len(s) \/ CharAt(s, i + n - 1) \in LineTerminators THEN best
  ELSE IF StartsAt(s, i + n, closer) THEN Greedy(s, i, n + 1, closer, n)
  ELSE Greedy(s, i, n + 1, closer, best)

\* The closing marker looked for from the far end of the text.
LazyAsGreedy(s, i, n, closer) == Greedy(s, i, n, closer, 0)

RECURSIVE Lazy(_, _, _, _)
\* (.+?) before closer (line 164): the fewest characters from index i on, at
\* least one and none a line terminator, that closer follows; 0 when there are
\* none.  n - 1 characters are taken already.
Lazy(s, i, n, closer) ==
  IF i + n - 1 > Len(s) \/ CharAt(s, i + n - 1) \in LineTerminators THEN 0
  ELSE IF StartsAt(s, i + n, closer) THEN n
  ELSE Lazy(s, i, n + 1, closer)

NoExec == [found |-> FALSE, index |-> 0, kind |-> "", group |-> "", lastIndex |-> 0]

\* The match of one alternative at index i, its group of n characters between
\* two markers; none when n is 0.  Indexes count from 1, and lastIndex is the
\* index after the match.
Alternative(s, i, marker, kind, n) ==
  IF n = 0 THEN NoExec
  ELSE [found |-> TRUE, index |-> i, kind |-> kind,
        group |-> SubSeq(s, i + Len(marker), i + Len(marker) + n - 1),
        lastIndex |-> i + 2 * Len(marker) + n]

\* The pattern of line 164 tried at index i: the alternative of the asterisks
\* first, then that of the backquotes.
MatchAt(s, i) ==
  IF StartsAt(s, i, "**") /\ Lazy(s, i + 2, 1, "**") > 0
  THEN Alternative(s, i, "**", "strong", Lazy(s, i + 2, 1, "**"))
  ELSE IF StartsAt(s, i, Backquote)
  THEN Alternative(s, i, Backquote, "code", Lazy(s, i + 1, 1, Backquote))
  ELSE NoExec

RECURSIVE exec(_, _)
\* This match if there is one, else the first from the next index on.
OrLater(m, s, i) == IF m.found THEN m ELSE exec(s, i + 1)

\* regex.exec(text) (line 168) with the search starting at index i.
exec(s, i) == IF i > Len(s) THEN NoExec ELSE OrLater(MatchAt(s, i), s, i)

\* Lines 169-171: the text before the match, if any, is pushed as it is.
PushBefore(s, lastIndex, parts, m) ==
  IF m.index > lastIndex
  THEN Append(parts, Part("plain", SubSeq(s, lastIndex, m.index - 1)))
  ELSE parts

\* Lines 182-184: the text after the last match, if any, is pushed as it is.
PushRest(s, lastIndex, parts) ==
  IF lastIndex <= Len(s)
  THEN Append(parts, Part("plain", SubSeq(s, lastIndex, Len(s))))
  ELSE parts

RECURSIVE While(_, _, _)
\* Lines 169-179, the body of the loop for the match m, and lines 182-184 when
\* there is none.
Body(s, lastIndex, parts, m) ==
  IF m.found
  THEN While(s, m.lastIndex,
             Append(PushBefore(s, lastIndex, parts, m), Part(m.kind, m.group)))
  ELSE PushRest(s, lastIndex, parts)

\* Lines 168-184: the loop, from lastIndex on.
While(s, lastIndex, parts) == Body(s, lastIndex, parts, exec(s, lastIndex))

\* Line 186: parts.length > 0 ? parts : text
PartsOrText(parts, s) ==
  [done |-> TRUE, array |-> Len(parts) > 0, parts |-> parts,
   text |-> IF Len(parts) > 0 THEN "" ELSE s]

renderInline(s) == PartsOrText(While(s, 1, <<>>), s)

InlineInit ==
  /\ SessionInit /\ NormIdle /\ RenderIdle
  /\ \/ \E n \in 0..MaxInline : \E q \in [1..n -> InlineAlphabet] : inline = Concat(q)
     \/ inline \in InlineExamples
  /\ node = NoNode

RenderInline ==
  /\ ~node.done
  /\ node' = renderInline(inline)
  /\ UNCHANGED <<sessionVars, normVars, renderVars, inline>>

InlineSpec == InlineInit /\ [][RenderInline]_vars

(***************************************************************************)
(* Properties of the session.                                              *)
(***************************************************************************)
\* The handlers that call sendMessage.
SendOps == {"handleKeyDown", "SendButtonClick", "handleSuggestionClick", "handleStarterClick"}

\* This step is a call of sendMessage.
SendStep == lastCall' # lastCall /\ lastCall'.op \in SendOps

\* This step is the settling of an agent call.
SettleStep == lastCall' # lastCall /\ lastCall'.op = "callAIAgent"

\* This step is a call of confirmNewChat.
ClearStep == lastCall' # lastCall /\ lastCall'.op = "confirmNewChat"

\* This step appends exactly one entry and leaves the others as they were.
AppendsOne ==
  /\ Len(messages') = Len(messages) + 1
  /\ SubSeq(messages', 1, Len(messages)) = messages

Last(q) == q[Len(q)]

\* C1: at most one agent call is in flight at any time, and a call of
\* sendMessage made while a call is in flight (the loading flag set) changes
\* nothing: no entry is appended, no agent call is started, no id is taken,
\* through whichever handler it comes and whatever its text.
C1_OneCallInFlight ==
  [][/\ Len(pending') <= 1
     /\ (SendStep /\ (isLoading \/ Len(pending) > 0))
          => UNCHANGED <<messages, pending, idCounter, isLoading, inputValue,
                         activeAgentId>>]_vars

\* C1's case: a suggestion was clicked while the call of the turn before it in
\* the transcript was still in flight, and it was not taken.
C1_Witness ==
  /\ isLoading /\ Len(pending) = 1
  /\ lastCall.op = "handleSuggestionClick"
  /\ Trim(lastCall.text) # ""
  /\ Len(messages) > 0
  /\ Last(messages).role = "user"
  /\ Last(messages).content # Trim(lastCall.text)

\* C2: a call of sendMessage with non-blank text while nothing is in flight
\* appends exactly one user entry (the trimmed text) and starts one agent call;
\* the settling of an agent call, whatever its result, appends exactly one
\* assistant entry and clears the loading flag, and nothing else ever appends an
\* assistant entry; for the payload {data: {response: "Hi there!"}} of a
\* successful call the entry's content is "Hi there!" and it is no error entry.
C2_OneEntryPerStep ==
  [][/\ (SendStep /\ Trim(lastCall'.text) # "" /\ ~isLoading)
          => /\ AppendsOne
             /\ Last(messages').role = "user"
             /\ Last(messages').content = Trim(lastCall'.text)
             /\ Len(pending') = Len(pending) + 1
             /\ isLoading'
     /\ SettleStep
          => /\ AppendsOne
             /\ Last(messages').role = "assistant"
             /\ ~isLoading'
             /\ Len(pending') = Len(pending) - 1
             /\ (lastCall'.result.success /\ lastCall'.result.payload = HiThere)
                  => /\ Last(messages').content = "Hi there!"
                     /\ ~Last(messages').isError
     /\ (Len(messages') > Len(messages) /\ Last(messages').role = "assistant")
          => SettleStep]_vars

\* C2's case: the call of a turn has settled successfully with the payload
\* {data: {response: "Hi there!"}}.
C2_Witness ==
  /\ lastCall.op = "callAIAgent"
  /\ lastCall.result.success /\ lastCall.result.payload = HiThere
  /\ Len(messages) >= 2
  /\ Last(messages).content = "Hi there!"
  /\ messages[Len(messages) - 1].role = "user"
  /\ ~isLoading

\* The ids getNextId has given out when the counter is n.
IssuedIds(n) == {"msg-" \o ToString(k) : k \in 1..n}

\* C3: every change of the transcript appends exactly one entry at the end and
\* leaves the existing entries and their order as they were, or is the clear of
\* confirmNewChat, which empties it in one step; an appended entry is new (its
\* id was never given out before), so a cleared entry never comes back.
C3_AppendOnly ==
  [][/\ \/ messages' = messages
        \/ /\ AppendsOne
           /\ Last(messages').id \notin IssuedIds(idCounter)
        \/ messages' = <<>> /\ ClearStep
     /\ idCounter' >= idCounter
     /\ \A i \in 1..Len(messages') : messages'[i].id \in IssuedIds(idCounter')]_vars

\* C3's case: the transcript was cleared and has been appended to since.
C3_Witness ==
  /\ Len(messages) = 2
  /\ messages[1].id = "msg-3"
  /\ messages[2].id = "msg-4"

\* The text of a failed call's entry: the error field if it is a non-empty
\* string, else response.message if it is one, else the generic text.
FailureText(res) ==
  IF res.kind = "reject"
  THEN "A network error occurred. Please check your connection and try again."
  ELSE IF res.error.t = "string" /\ res.error.s # "" THEN res.error.s
  ELSE IF res.message.t = "string" /\ res.message.s # "" THEN res.message.s
  ELSE "Something went wrong. Please try again."

\* C4: when an agent call fails (it reports success: false, or it throws),
\* exactly one entry is appended, an assistant entry flagged as an error with
\* the text FailureText gives, and no agent call is started.
C4_FailedTurn ==
  [][(SettleStep /\ ~lastCall'.result.success)
       => /\ AppendsOne
          /\ Last(messages').role = "assistant"
          /\ Last(messages').isError
          /\ Last(messages').content = FailureText(lastCall'.result)
          /\ Len(pending') = Len(pending) - 1
          /\ pending' = <<>>]_vars

\* C4's case: a call reported success: false with an empty error field and a
\* response.message.
C4_Witness ==
  /\ lastCall.op = "callAIAgent"
  /\ lastCall.result.kind = "resolve" /\ ~lastCall.result.success
  /\ lastCall.result.error = Str("") /\ lastCall.result.message = Str("M")
  /\ Last(messages).content = "M"
  /\ Last(messages).isError

(***************************************************************************)
(* Properties of parseAgentResponse.                                       *)
(***************************************************************************)
\* The values `if (v)` takes for false, of those a payload of the model holds.
Falsy(v) == v \in {Undefined, Null, Bool(FALSE), Num(0), Str("")}

\* v is a plain object with the own property k.
Has(v, k) == v.t = "object" /\ k \in DOMAIN v.o

\* v.k1.k2 of plain objects, Undefined where there is none.
At(v, k1, k2) ==
  IF Has(v, k1) /\ Has(v.o[k1], k2) THEN v.o[k1].o[k2] ELSE Undefined

\* v.k of a plain object, Undefined where there is none.
Field(v, k) == IF Has(v, k) THEN v.o[k] ELSE Undefined

\* The elements of v when it is a sequence, else none.
SeqOrNone(v) == IF v.t = "array" THEN v.a ELSE <<>>

\* v is plain data all through: no reading, coercion or serialization of it
\* raises.
PlainData(v) == IsJson(v)

\* The payload has the nested shape: a truthy data.response.
NestedMatch(p) == ~Falsy(At(p, "data", "response"))

\* The payload has the flat shape: response is a non-empty string.
FlatMatch(p) == Field(p, "response").t = "string" /\ Field(p, "response").s # ""

GenericNames == <<"summary", "text", "message", "answer">>

\* The payload has a truthy generic field.
GenericMatch(p) == \E i \in 1..4 : ~Falsy(Field(p, GenericNames[i]))

\* C5: the strategies are tried in the order nested shape, flat shape, ...,
\* and the first that matches wins (a shape matching when its field is
\* truthy): a payload that has the nested shape and also the flat shape or a
\* generic field gets its text from data.response and its suggestions from
\* data.follow_up_suggestions only; one that has the flat shape and a generic
\* field, and not the nested shape, gets its text from response.
C5_StrategyOrder ==
  (parsed.done /\ result.t = "object" /\ PlainData(result))
    => /\ (NestedMatch(result) /\ (FlatMatch(result) \/ GenericMatch(result)))
            => /\ parsed.text = ToStringJS(At(result, "data", "response"))
               /\ parsed.suggestions
                    = SeqOrNone(At(result, "data", "follow_up_suggestions"))
       /\ (~NestedMatch(result) /\ FlatMatch(result) /\ GenericMatch(result))
            => parsed.text = Field(result, "response")

\* C5's case: a payload with both shapes and two different suggestion lists.
C5_Witness ==
  /\ parsed.done
  /\ result = Obj([data |-> Obj([response |-> Str("X"),
                                 follow_up_suggestions |-> Arr(<<Str("s1"), Str("s2")>>)]),
                   response |-> Str("R"),
                   follow_up_suggestions |-> Arr(<<Num(1)>>)])
  /\ parsed.text = Str("X")
  /\ parsed.suggestions = <<Str("s1"), Str("s2")>>

\* C6 as claimed: a payload whose data.response has a non-empty string
\* coercion gets that string as its text and data.follow_up_suggestions, when a
\* sequence, as its suggestions; one whose data.response has an empty string
\* coercion is not taken for the nested shape (with no other property than
\* data, the payload is serialized whole).
C6_AsClaimed ==
  (parsed.done /\ result.t = "object" /\ PlainData(result)
     /\ Has(result, "data") /\ Has(result.o.data, "response"))
    => LET r == result.o.data.o.response IN
       /\ ToStringJS(r).s # ""
            => /\ parsed.text = ToStringJS(r)
               /\ parsed.suggestions
                    = SeqOrNone(At(result, "data", "follow_up_suggestions"))
       /\ (ToStringJS(r).s = "" /\ DOMAIN result.o = {"data"})
            => parsed.text = JSONstringifyIndented(result)

\* C6, amended: a payload whose data.response is truthy (and plain data) gets
\* String(data.response) as its text, the empty text of an empty array
\* included, and data.follow_up_suggestions, when a sequence, as its
\* suggestions; a falsy data.response (null, false, 0, "") is not taken for the
\* nested shape: the text then is response when that is a non-empty string, and
\* the serialized payload when data is the only property.
C6_NestedShape ==
  (parsed.done /\ result.t = "object" /\ PlainData(result)
     /\ Has(result, "data") /\ Has(result.o.data, "response"))
    => LET r == result.o.data.o.response IN
       /\ ~Falsy(r)
            => /\ parsed.text = ToStringJS(r)
               /\ parsed.suggestions
                    = SeqOrNone(At(result, "data", "follow_up_suggestions"))
       /\ (Falsy(r) /\ FlatMatch(result))
            => /\ parsed.text = Field(result, "response")
               /\ parsed.suggestions = SeqOrNone(Field(result, "follow_up_suggestions"))
       /\ (Falsy(r) /\ DOMAIN result.o = {"data"})
            => /\ parsed.text = JSONstringifyIndented(result)
               /\ parsed.suggestions = <<>>

\* C6's case: data.response is 0, falsy with the non-empty coercion "0", beside
\* a sequence of suggestions: the payload is serialized whole.
C6_Witness ==
  /\ parsed.done
  /\ result = Obj([data |-> Obj([response |-> Num(0),
                                 follow_up_suggestions |-> Arr(<<Str("s1"), Str("s2")>>)])])
  /\ parsed.text = JSONstringifyIndented(result)
  /\ parsed.suggestions = <<>>

\* C7 as claimed, for the JSON texts whose value has no data property: the
\* text is the value's response when that is a non-empty string, and the
\* payload itself, with no suggestions, in every other case.
C7_AsClaimed ==
  (parsed.done /\ result.t = "string")
    => LET p == JSONparse(result.s) IN
       IF IsRaise(p) THEN parsed.text = result /\ parsed.suggestions = <<>>
       ELSE ~Has(p, "data")
              => IF FlatMatch(p) THEN parsed.text = Field(p, "response")
                 ELSE parsed.text = result /\ parsed.suggestions = <<>>

\* C7, amended: for a string payload that parses as JSON, the text is
\* String(data.response) of the parsed value when that is truthy (with
\* data.follow_up_suggestions, when a sequence, as suggestions), else
\* String(response) of the parsed value when that is truthy, whatever its type
\* (with no suggestions); when the parse fails or neither is truthy, the text
\* is the payload itself, with no suggestions.
C7_StringPayload ==
  (parsed.done /\ result.t = "string")
    => LET p == JSONparse(result.s) IN
       IF IsRaise(p) THEN parsed.text = result /\ parsed.suggestions = <<>>
       ELSE IF NestedMatch(p)
       THEN /\ parsed.text = ToStringJS(At(p, "data", "response"))
            /\ parsed.suggestions = SeqOrNone(At(p, "data", "follow_up_suggestions"))
       ELSE IF ~Falsy(Field(p, "response"))
       THEN /\ parsed.text = ToStringJS(Field(p, "response"))
            /\ parsed.suggestions = <<>>
       ELSE parsed.text = result /\ parsed.suggestions = <<>>

\* C7's case: the text of {"response": 5}, whose response is no string.
C7_Witness ==
  /\ parsed.done
  /\ result = Str("{\"response\":5}")
  /\ parsed.text = Str("5")

\* The first of the generic fields, from the i-th on, that is present and not
\* null; Undefined when there is none.
RECURSIVE FirstNonNull(_, _)
FirstNonNull(p, i) ==
  IF i > 4 THEN Undefined
  ELSE IF ~IsNullish(Field(p, GenericNames[i])) THEN Field(p, GenericNames[i])
  ELSE FirstNonNull(p, i + 1)

\* The first of the generic fields, from the i-th on, that is truthy; Undefined
\* when there is none.
RECURSIVE FirstTruthy(_, _)
FirstTruthy(p, i) ==
  IF i > 4 THEN Undefined
  ELSE IF ~Falsy(Field(p, GenericNames[i])) THEN Field(p, GenericNames[i])
  ELSE FirstTruthy(p, i + 1)

\* C8 as claimed, for the objects with neither data nor response: the text is
\* the string coercion of the first of summary, text, message, answer that is
\* present and not null, and the serialized object when there is none.
C8_AsClaimed ==
  (parsed.done /\ result.t = "object" /\ PlainData(result)
     /\ ~Has(result, "data") /\ ~Has(result, "response"))
    => LET g == FirstNonNull(result, 1) IN
       IF g # Undefined THEN parsed.text = ToStringJS(g)
       ELSE parsed.text = JSONstringifyIndented(result)

\* C8, amended: for an object payload (plain data) with neither the nested nor
\* the flat shape, the text is the string coercion of the first of summary,
\* text, message, answer that is truthy, so an empty string, 0, false or null
\* in an earlier field is passed over; when none is truthy the text is the
\* object serialized with an indentation of two spaces.  No suggestions.
C8_GenericFields ==
  (parsed.done /\ result.t = "object" /\ PlainData(result)
     /\ ~NestedMatch(result) /\ ~FlatMatch(result))
    => LET g == FirstTruthy(result, 1) IN
       /\ IF g # Undefined THEN parsed.text = ToStringJS(g)
          ELSE parsed.text = JSONstringifyIndented(result)
       /\ parsed.suggestions = <<>>

\* C8's case: an empty summary is passed over for the text field.
C8_Witness ==
  /\ parsed.done
  /\ result = Obj([summary |-> Str(""), text |-> Num(5), answer |-> Str("G")])
  /\ parsed.text = Str("5")

\* The payloads a reading, a coercion or the serialization of which raises.
RaisingPayloads ==
  {Exotic("thrower"), Exotic("cyclic"), Obj([summary |-> Exotic("thrower")]),
   Obj([data |-> Exotic("cyclic")]), Obj([data |-> Exotic("thrower")]),
   Obj([data |-> Obj([response |-> Exotic("thrower")])])}

\* C9: for every payload the record returned has a string as its text and a
\* sequence as its suggestions; a payload for which something raises gets the
\* text "Unable to parse response."; null and undefined get the text
\* "No response received." and no suggestions.
C9_Total ==
  parsed.done
    => /\ parsed.text.t = "string"
       /\ parsed.suggestions \in Seq({v \in Range(parsed.suggestions) : TRUE})
       /\ result \in RaisingPayloads
            => parsed.text = Str("Unable to parse response.")
       /\ IsNullish(result)
            => parsed.text = Str("No response received.") /\ parsed.suggestions = <<>>

(***************************************************************************)
(* Properties of MarkdownRenderer.                                         *)
(***************************************************************************)
\* Where content holds a newline.
Newlines == {i \in 1..Len(content) : CharAt(content, i) = "\n"}

\* Where the k-th newline of content is; 0 for k = 0, past the end for the
\* one after the last.
NewlineAt(k) ==
  IF k = 0 THEN 0
  ELSE IF k > Cardinality(Newlines) THEN Len(content) + 1
  ELSE CHOOSE p \in Newlines : Cardinality({q \in Newlines : q <= p}) = k

\* The k-th newline-separated line of content, trimmed.
TrimmedLine(k) == Trim(SubSeq(content, NewlineAt(k - 1) + 1, NewlineAt(k) - 1))

\* t is d digits, a period, one character of seps, and at least one character
\* more.
NumberedAs(t, d, seps) ==
  /\ Len(t) >= d + 3
  /\ \A i \in 1..d : CharAt(t, i) \in Digits
  /\ CharAt(t, d + 1) = "."
  /\ CharAt(t, d + 2) \in seps

\* s holds no line terminator.
OneLine(s) == \A i \in 1..Len(s) : CharAt(s, i) \notin LineTerminators

\* b is the block of the trimmed line t by the rules before the numbered item.
MarkerRules(b, t) ==
  /\ t = "" => b = RenderBlock("blank", "", "")
  /\ StartsWith(t, "### ") => b = RenderBlock("h3", "", SubSeq(t, 5, Len(t)))
  /\ StartsWith(t, "## ") => b = RenderBlock("h2", "", SubSeq(t, 4, Len(t)))
  /\ StartsWith(t, "# ") => b = RenderBlock("h1", "", SubSeq(t, 3, Len(t)))
  /\ (StartsWith(t, "- ") \/ StartsWith(t, "* "))
       => b = RenderBlock("bullet", "", SubSeq(t, 3, Len(t)))

\* t falls under none of the rules before the numbered item.
NoMarker(t) ==
  /\ t # ""
  /\ \A m \in {"### ", "## ", "# ", "- ", "* "} : ~StartsWith(t, m)

\* b is the block of the trimmed line t when a numbered item is digits, a
\* period, exactly one space and the remaining text, which is its content.
BlockAsClaimed(b, t) ==
  /\ MarkerRules(b, t)
  /\ NoMarker(t)
       => IF \E d \in 1..Len(t) : NumberedAs(t, d, {" "})
          THEN \E d \in 1..Len(t) :
                 /\ NumberedAs(t, d, {" "})
                 /\ b = RenderBlock("numbered", SubSeq(t, 1, d), SubSeq(t, d + 3, Len(t)))
          ELSE b = RenderBlock("paragraph", "", t)

\* C10 as claimed: one block per newline-separated line; a trimmed line of
\* digits, a period, exactly one space and the remaining text is a numbered
\* item with the digits as its index and the remaining text as its content;
\* a line under no rule is a paragraph.
C10_AsClaimed ==
  blocks # <<>>
    => /\ Len(blocks) = Cardinality(Newlines) + 1
       /\ \A k \in 1..Len(blocks) : BlockAsClaimed(blocks[k], TrimmedLine(k))

\* t is a numbered item of d digits: digits, a period, one white-space
\* character (a space, a tab, ...), and then a character that is no line
\* terminator.
Numbered(t, d) ==
  NumberedAs(t, d, WhiteSpace) /\ CharAt(t, d + 3) \notin LineTerminators

\* b is the block of the trimmed line t when a numbered item is as Numbered
\* has it, its content ending before the first line terminator.
BlockOfLine(b, t) ==
  /\ MarkerRules(b, t)
  /\ NoMarker(t)
       => IF \E d \in 1..Len(t) : Numbered(t, d)
          THEN \E d \in 1..Len(t), e \in 1..Len(t) :
                 /\ Numbered(t, d)
                 /\ e >= d + 3
                 /\ OneLine(SubSeq(t, d + 3, e))
                 /\ e < Len(t) => CharAt(t, e + 1) \in LineTerminators
                 /\ b = RenderBlock("numbered", SubSeq(t, 1, d), SubSeq(t, d + 3, e))
          ELSE b = RenderBlock("paragraph", "", t)

\* C10, amended: one block per newline-separated line of content, each line
\* classified on its trimmed text: empty -> blank; "### ", "## ", "# " ->
\* heading 3, 2, 1 and "- " or "* " -> bullet, with the text after the marker;
\* digits, ".", one white-space character of any kind, and at least one
\* character that is no line terminator -> numbered item whose index is the
\* digit string of the source and whose content is the text after the
\* white-space character, up to the first carriage return in it; otherwise
\* paragraph with the trimmed line.
C10_RenderBlocks ==
  blocks # <<>>
    => /\ Len(blocks) = Cardinality(Newlines) + 1
       /\ \A k \in 1..Len(blocks) : BlockOfLine(blocks[k], TrimmedLine(k))

\* C10's case: a tab after the period, and a carriage return in the text.
C10_Witness ==
  /\ content = "1.\ta\ra"
  /\ blocks = <<RenderBlock("numbered", "1", "a")>>

(***************************************************************************)
(* Properties of renderInline.                                             *)
(***************************************************************************)
\* The source a part was made from: a strong or code element between its
\* markers, a string as it is.
MarkedUp(p) ==
  IF p.kind = "strong" THEN "**" \o p.text \o "**"
  ELSE IF p.kind = "code" THEN Backquote \o p.text \o Backquote
  ELSE p.text

RECURSIVE Joined(_, _)
\* The sources of the first k parts, one after the other.
Joined(ps, k) == IF k = 0 THEN "" ELSE Joined(ps, k - 1) \o MarkedUp(ps[k])

\* s holds, from index i on, the marker, n characters none of which is in no,
\* and the marker again.
PairAt(s, i, marker, n, no) ==
  /\ StartsAt(s, i, marker)
  /\ StartsAt(s, i + Len(marker) + n, marker)
  /\ \A k \in 1..n : CharAt(s, i + Len(marker) + k - 1) \notin no

\* A pair of markers with at least one character between them starts at index
\* i of s.
PairStartsAt(s, i, no) ==
  \E n \in 1..Len(s) : PairAt(s, i, "**", n, no) \/ PairAt(s, i, Backquote, n, no)

\* The part p, made from the text at index o, is as the scan from left to
\* right has it: a string is not empty and no pair starts in it; an element is
\* made of a pair, the shortest that starts there.
PartAt(p, o, marker, no) ==
  IF p.kind = "plain"
  THEN /\ p.text # ""
       /\ \A i \in o..(o + Len(p.text) - 1) : ~PairStartsAt(inline, i, no)
  ELSE /\ PairAt(inline, o, marker, Len(p.text), no)
       /\ \A n \in 1..(Len(p.text) - 1) : ~PairAt(inline, o, marker, n, no)

\* The parts returned are the spans of the text, a pair being two markers with
\* at least one character, none of them in no, between them.
SpansOfText(no) ==
  /\ node.array = (inline # "")
  /\ ~node.array => node.text = inline
  /\ \A j \in 1..Len(node.parts) :
       node.parts[j].kind \in {"plain", "strong", "code"}
  /\ Joined(node.parts, Len(node.parts)) = inline
  /\ \A j \in 1..Len(node.parts) :
       PartAt(node.parts[j], Len(Joined(node.parts, j - 1)) + 1,
              IF node.parts[j].kind = "strong" THEN "**" ELSE Backquote, no)

\* C11 as claimed: every pair of markers with some text X between them,
\* whatever its characters, is a span: the earliest-starting pair first, closed
\* by the nearest closing marker, and the text under no pair as it is, nothing
\* lost.
C11_AsClaimed == node.done => SpansOfText({})

\* The example of the text.
InlineExample == "**bold** and " \o Backquote \o "code" \o Backquote

\* C11, amended: the scan goes from left to right and gives the spans in the
\* order of the source: two asterisks, a text X of at least one character none
\* of which is a line terminator, and two asterisks are bold(X), and a
\* backquote, such an X and a backquote are code(X), the earliest-starting pair
\* first, closed by the nearest closing marker; everything else, markers with
\* no text or with a carriage return between them included, is plain text, so
\* that the spans' sources, one after the other, are the input.  The example
\* gives bold("bold"), plain(" and "), code("code").
C11_InlineSpans ==
  node.done
    => /\ SpansOfText(LineTerminators)
       /\ inline = InlineExample
            => node.parts = <<Part("strong", "bold"), Part("plain", " and "),
                              Part("code", "code")>>

\* C11's case: markers with a carriage return between them stay plain text, and
\* the pair after them is a bold span.
C11_Witness ==
  /\ node.done
  /\ inline = "**\r**a**"
  /\ node.parts = <<Part("plain", "**\r"), Part("strong", "a")>>

(***************************************************************************)
(* Properties of the ids and of the order of the transcript.               *)
(***************************************************************************)
\* The number in the id "msg-k".
IdNumber(id) == CHOOSE k \in 0..(2 * MaxTurns + 2) : id = "msg-" \o ToString(k)

\* C12: ids are given out once and in rising order for the whole session: the
\* counter never goes down, not in a clear either; an entry appended to the
\* transcript has the id of the counter just raised by one; and the ids of the
\* entries of the transcript rise strictly in its order.
C12_UniqueIds ==
  [][/\ idCounter' >= idCounter
     /\ ClearStep => idCounter' = idCounter
     /\ Len(messages') > Len(messages)
          => /\ idCounter' = idCounter + 1
             /\ Last(messages').id = "msg-" \o ToString(idCounter')
     /\ \A i, j \in 1..Len(messages') :
          i < j => IdNumber(messages'[i].id) < IdNumber(messages'[j].id)]_vars

\* C12's case: two turns with a clear between the submission and the
\* completion of the first.
C12_Witness ==
  /\ Len(messages) = 3
  /\ idCounter = 4
  /\ [i \in 1..3 |-> messages[i].id] = <<"msg-2", "msg-3", "msg-4">>

\* C13: in every state the transcript is empty or goes user, assistant, user,
\* ... from a user entry on.
C13_Alternates ==
  \A i \in 1..Len(messages) :
    messages[i].role = IF i % 2 = 1 THEN "user" ELSE "assistant"

====
